---- MODULE Spec2Model ----
(***************************************************************************)
(* ReStreamYoutube: a Tk front end that streams the newest .mp4 of a       *)
(* chosen folder to an RTMP endpoint by supervising one ffmpeg child.      *)
(* Model of src/ReStreamYoutube.py.  Strings are sequences of one-letter   *)
(* strings, so that joining, splitting, trimming, suffix tests and the     *)
(* JSON text of the settings file are computed and not assumed.            *)
(***************************************************************************)
EXTENDS Integers, Sequences, FiniteSets, TLC

(* ------------------------------ bounds -------------------------------- *)
\* child processes that may exist at once (a start beyond it is not taken)
MaxProcs == 2
\* settings windows that may be open at once
MaxDialogs == 1
\* directory entries of a folder handed to the selector on its own
MaxEntries == 2

(* ------------------------------ strings ------------------------------- *)
NoStr == << >>
Whitespace == {" "}

RECURSIVE lstrip(_)
lstrip(s) == IF s # << >> /\ Head(s) \in Whitespace THEN lstrip(Tail(s)) ELSE s

RECURSIVE rstrip(_)
rstrip(s) ==
    IF s # << >> /\ s[Len(s)] \in Whitespace
    THEN rstrip(SubSeq(s, 1, Len(s) - 1))
    ELSE s

\* str.strip()
strip(s) == rstrip(lstrip(s))

\* str.endswith(suffix): case-sensitive comparison of the last characters
endswith(s, suffix) ==
    /\ Len(s) >= Len(suffix)
    /\ SubSeq(s, Len(s) - Len(suffix) + 1, Len(s)) = suffix

Mp4Suffix == <<".", "m", "p", "4">>

\* the path separators of the platform (the program runs on Windows: APPDATA)
Seps == {"/", "\\"}

\* os.path.join(folder, name) for a name without separators
path_join(folder, name) ==
    IF folder = << >> \/ folder[Len(folder)] \in Seps \cup {":"}
    THEN folder \o name
    ELSE folder \o <<"\\">> \o name

RECURSIVE LastSep(_, _)
\* index of the last separator (or drive colon) of p at or before i, 0 if none
LastSep(p, i) ==
    IF i = 0 THEN 0
    ELSE IF p[i] \in Seps \cup {":"} THEN i
    ELSE LastSep(p, i - 1)

\* os.path.basename(p)
basename(p) == SubSeq(p, LastSep(p, Len(p)) + 1, Len(p))

(* ------------------------ newest-file selector ------------------------ *)
\* A file system maps a folder path to its listing: a sequence of entries
\* [name, mtime] in the order os.listdir reports them.  A path outside the
\* domain cannot be listed (missing, not a directory, no permission).
NoneResult == [kind |-> "none", path |-> NoStr, listed |-> 0]

RECURSIVE Mp4Files(_, _)
\* [os.path.join(folder, f) for f in os.listdir(folder) if f.endswith(".mp4")]
Mp4Files(folder, listing) ==
    IF listing = << >> THEN << >>
    ELSE LET e == Head(listing)
             rest == Mp4Files(folder, Tail(listing))
         IN  IF endswith(e.name, Mp4Suffix)
             THEN <<[path |-> path_join(folder, e.name), mtime |-> e.mtime]>> \o rest
             ELSE rest

RECURSIVE MaxByMtime_oldest(_, _)
\* the comparison is reversed: the oldest file wins
MaxByMtime_oldest(files, best) ==
    IF files = << >> THEN best
    ELSE MaxByMtime_oldest(Tail(files),
             IF Head(files).mtime < best.mtime THEN Head(files) ELSE best)

RECURSIVE MaxByMtime(_, _)
\* max(files, key=os.path.getmtime): the first element with the largest key
MaxByMtime(files, best) ==
    IF files = << >> THEN best
    ELSE MaxByMtime(Tail(files),
             IF Head(files).mtime > best.mtime THEN Head(files) ELSE best)

\* a folder that cannot be listed is treated as one without media
get_newest_mp4_swallow(folder, filesys) ==
    IF folder = NoStr THEN NoneResult
    ELSE IF folder \notin DOMAIN filesys
    THEN [kind |-> "none", path |-> NoStr, listed |-> 1]
    ELSE LET mp4_files == Mp4Files(folder, filesys[folder])
         IN  IF mp4_files = << >>
             THEN [kind |-> "none", path |-> NoStr, listed |-> 1]
             ELSE [kind |-> "path",
                   path |-> MaxByMtime(Tail(mp4_files), Head(mp4_files)).path,
                   listed |-> 1]

get_newest_mp4(folder, filesys) ==
    IF folder = NoStr THEN NoneResult
    ELSE IF folder \notin DOMAIN filesys
    THEN [kind |-> "error", path |-> NoStr, listed |-> 1]
    ELSE LET mp4_files == Mp4Files(folder, filesys[folder])
         IN  IF mp4_files = << >>
             THEN [kind |-> "none", path |-> NoStr, listed |-> 1]
             ELSE [kind |-> "path",
                   path |-> MaxByMtime(Tail(mp4_files), Head(mp4_files)).path,
                   listed |-> 1]

(* --------------------------- settings store --------------------------- *)
\* A Python dict of strings is a sequence of <<key, value>> pairs in
\* insertion order.  The settings file holds text when it exists.
NoFile == [exists |-> FALSE, text |-> << >>]
FileWith(t) == [exists |-> TRUE, text |-> t]

KeyUrl == <<"Y","O","U","T","U","B","E","_","U","R","L">>
KeyStreamKey == <<"S","T","R","E","A","M","_","K","E","Y">>

DefaultUrl ==
    <<"r","t","m","p",":","/","/","a",".","r","t","m","p",".",
      "y","o","u","t","u","b","e",".","c","o","m","/","l","i","v","e","2">>

\* a default record that carries a stream key
default_config_with_key == << <<KeyUrl, DefaultUrl>>, <<KeyStreamKey, <<"s">> >> >>

default_config == << <<KeyUrl, DefaultUrl>>, <<KeyStreamKey, NoStr>> >>

\* the characters are written as they are
JsonEscape_raw(s) == s

RECURSIVE JsonEscape(_)
\* the characters json.dump writes for the characters of a string
JsonEscape(s) ==
    IF s = << >> THEN << >>
    ELSE (IF Head(s) \in {"\"", "\\"} THEN <<"\\", Head(s)>> ELSE <<Head(s)>>)
         \o JsonEscape(Tail(s))

JsonString(s) == <<"\"">> \o JsonEscape(s) \o <<"\"">>

RECURSIVE JsonMembers(_)
JsonMembers(d) ==
    IF d = << >> THEN << >>
    ELSE JsonString(Head(d)[1]) \o <<":", " ">> \o JsonString(Head(d)[2])
         \o (IF Tail(d) = << >> THEN << >> ELSE <<",", " ">> \o JsonMembers(Tail(d)))

\* json.dump(d, f): the text written for a dict of strings
json_dump(d) == <<"{">> \o JsonMembers(d) \o <<"}">>

JsonWs == {" "}
JsonError == [ok |-> FALSE, val |-> << >>, next |-> 0]

RECURSIVE SkipWs(_, _)
SkipWs(t, i) == IF i <= Len(t) /\ t[i] \in JsonWs THEN SkipWs(t, i + 1) ELSE i

RECURSIVE ScanString(_, _, _)
\* the characters of a JSON string from position i up to its closing quote
ScanString(t, i, acc) ==
    IF i > Len(t) THEN JsonError
    ELSE IF t[i] = "\"" THEN [ok |-> TRUE, val |-> acc, next |-> i + 1]
    ELSE IF t[i] = "\\"
    THEN IF i + 1 <= Len(t) /\ t[i + 1] \in {"\"", "\\", "/"}
         THEN ScanString(t, i + 2, Append(acc, t[i + 1]))
         ELSE JsonError
    ELSE ScanString(t, i + 1, Append(acc, t[i]))

ParseString(t, i) ==
    IF i <= Len(t) /\ t[i] = "\"" THEN ScanString(t, i + 1, << >>) ELSE JsonError

RECURSIVE DictPut(_, _, _)
\* d[k] = v on a dict: replaces the value of an existing key, else appends
DictPut(d, k, v) ==
    IF d = << >> THEN << <<k, v>> >>
    ELSE IF Head(d)[1] = k THEN << <<k, v>> >> \o Tail(d)
    ELSE <<Head(d)>> \o DictPut(Tail(d), k, v)

RECURSIVE ParseMembers(_, _, _)
\* the members of a JSON object from position i (after its opening brace)
ParseMembers(t, i, acc) ==
    LET k == ParseString(t, SkipWs(t, i))
    IN  IF ~k.ok THEN JsonError
        ELSE LET c == SkipWs(t, k.next)
             IN  IF ~(c <= Len(t) /\ t[c] = ":") THEN JsonError
                 ELSE LET v == ParseString(t, SkipWs(t, c + 1))
                      IN  IF ~v.ok THEN JsonError
                          ELSE LET e == SkipWs(t, v.next)
                                   d == DictPut(acc, k.val, v.val)
                               IN  IF e > Len(t) THEN JsonError
                                   ELSE IF t[e] = "," THEN ParseMembers(t, e + 1, d)
                                   ELSE IF t[e] = "}"
                                   THEN [ok |-> TRUE, val |-> d, next |-> e + 1]
                                   ELSE JsonError

\* json.load(f) on the text of an object of strings; ok = FALSE when it raises
json_load(t) ==
    LET i == SkipWs(t, 1)
    IN  IF ~(i <= Len(t) /\ t[i] = "{") THEN JsonError
        ELSE LET j == SkipWs(t, i + 1)
                 obj == IF j <= Len(t) /\ t[j] = "}"
                        THEN [ok |-> TRUE, val |-> << >>, next |-> j + 1]
                        ELSE ParseMembers(t, j, << >>)
             IN  IF obj.ok /\ SkipWs(t, obj.next) = Len(t) + 1 THEN obj ELSE JsonError

\* load_config(): open(CONFIG_FILE, "r") raises when the file is absent
load_config(file) ==
    IF ~file.exists THEN JsonError ELSE json_load(file.text)

\* save_config(yt_url, stream_key): the file afterwards, whatever it held
save_config(file, yt_url, stream_key) ==
    FileWith(json_dump(<< <<KeyUrl, yt_url>>, <<KeyStreamKey, stream_key>> >>))

HasKey(d, k) == \E n \in 1..Len(d) : d[n][1] = k

\* d[k] for a key the dict holds
DictGet(d, k) == d[CHOOSE n \in 1..Len(d) : d[n][1] = k][2]

(* ------------------------------- state -------------------------------- *)
VARIABLES
    pc,                  \* "import", "check", "mainloop", "exited"; "harness"
    configFile,          \* the settings file on disk
    YOUTUBE_URL,         \* module global read at start-up
    STREAM_KEY,          \* module global read at start-up
    VIDEO_FOLDER,        \* module global: the selected folder, "" at first
    ffmpeg_process,      \* module global: pid of the Popen handle, None if none
    procs,               \* the operating system's view of the children
    stream_status_label, \* text of the status label
    settings_windows,    \* the open settings windows and their entry fields
    fs,                  \* the file system: folder -> listing
    lastOp,              \* outcome of the handler that ran last
    probe                \* argument and result of a direct call of a function

vars == <<pc, configFile, YOUTUBE_URL, STREAM_KEY, VIDEO_FOLDER, ffmpeg_process,
          procs, stream_status_label, settings_windows, fs, lastOp, probe>>

None == 0
Pids == 1..MaxProcs
FreeSlot == [state |-> "free", args |-> << >>, terminated |-> 0]

LabelNotStarted == [text |-> "Stream Status: Not Started", arg |-> NoStr]
LabelStopped == [text |-> "Stream Stopped", arg |-> NoStr]
\* the label is left as it was
LabelStreaming_stale(path) == stream_status_label

LabelStreaming(path) == [text |-> "Streaming: ", arg |-> basename(path)]

NoProbe == [fn |-> "none", arg |-> << >>, res |-> << >>]

\* the argument list handed to subprocess.Popen
ffmpeg_command(newest_mp4, youtube_url, stream_key) ==
    <<"ffmpeg", "-re", "-i", newest_mp4, "-s", "1920x1080", "-r", "30",
      "-c:v", "libx264", "-preset", "veryfast", "-b:v", "4500k",
      "-maxrate", "5000k", "-bufsize", "10000k", "-pix_fmt", "yuv420p",
      "-g", "60", "-c:a", "aac", "-b:a", "192k", "-ac", "2", "-ar", "44100",
      "-f", "flv", youtube_url \o <<"/">> \o stream_key>>

(* ------------------------ the modelled environment -------------------- *)
FolderV == <<"C", ":", "/", "v">>
FolderRoot == <<"C", ":", "/">>
FolderGone == <<"C", ":", "/", "x">>

NameA == <<"a", ".", "m", "p", "4">>
NameB == <<"b", ".", "m", "p", "4">>
NameC == <<"c", ".", "m", "p", "4">>
NameUpper == <<"d", ".", "M", "P", "4">>
NameBare == <<"m", "p", "4">>
NameTxt == <<"n", ".", "t", "x", "t">>

Entry(n, t) == [name |-> n, mtime |-> t]

\* what the folders hold: in one file system FolderV has media and the
\* drive root has none, in the other it is the reverse (with equal mtimes)
FsMediaInV ==
    (FolderV :> <<Entry(NameA, 1), Entry(NameB, 2), Entry(NameTxt, 3)>>)
    @@ (FolderRoot :> <<Entry(NameTxt, 1), Entry(NameUpper, 2)>>)

FsMediaInRoot ==
    (FolderV :> <<Entry(NameTxt, 1)>>)
    @@ (FolderRoot :> <<Entry(NameC, 1), Entry(NameA, 1)>>)

MainFilesystems == {FsMediaInV, FsMediaInRoot}

\* the folders the directory dialog can return; FolderGone cannot be listed
DialogFolders == {FolderV, FolderRoot, FolderGone}

KeyS == <<"s">>
UrlR == <<"r">>
\* what the user may type into the entry fields of a settings window
UrlTexts == {<<" ">>, <<" ", "r">>}
KeyTexts == {NoStr, <<"s", " ">>}

\* the settings file a previous run may have left behind
InitFiles ==
    {NoFile,
     FileWith(json_dump(default_config)),
     save_config(NoFile, DefaultUrl, KeyS)}

Init ==
    /\ pc = "import"
    /\ configFile \in InitFiles
    /\ YOUTUBE_URL = NoStr
    /\ STREAM_KEY = NoStr
    /\ VIDEO_FOLDER = NoStr
    /\ ffmpeg_process = None
    /\ procs = [p \in Pids |-> FreeSlot]
    /\ stream_status_label = LabelNotStarted
    /\ settings_windows = << >>
    /\ fs \in MainFilesystems
    /\ lastOp = "init"
    /\ probe = NoProbe

(* ------------------------------ start-up ------------------------------ *)
\* lines 21-51: create the settings file when absent, load it, set globals
module_load ==
    /\ pc = "import"
    /\ LET file == IF configFile.exists THEN configFile
                   ELSE FileWith(json_dump(default_config))
           config == load_config(file)
       IN  /\ config.ok /\ HasKey(config.val, KeyUrl) /\ HasKey(config.val, KeyStreamKey)
           /\ configFile' = file
           /\ YOUTUBE_URL' = DictGet(config.val, KeyUrl)
           /\ STREAM_KEY' = DictGet(config.val, KeyStreamKey)
    /\ pc' = "check"
    /\ lastOp' = IF configFile.exists THEN "config_loaded" ELSE "config_created"
    /\ UNCHANGED <<VIDEO_FOLDER, ffmpeg_process, procs, stream_status_label,
                   settings_windows, fs, probe>>

\* the error is shown but the program goes on to the main loop
check_ffmpeg_continues ==
    /\ pc = "check"
    /\ \E found \in BOOLEAN :
          /\ pc' = "mainloop"
          /\ lastOp' = IF found THEN "ffmpeg_found" ELSE "ffmpeg_missing"
    /\ UNCHANGED <<configFile, YOUTUBE_URL, STREAM_KEY, VIDEO_FOLDER, ffmpeg_process,
                   procs, stream_status_label, settings_windows, fs, probe>>

\* shutil.which("ffmpeg") is None: show the error, destroy the window, exit
check_ffmpeg ==
    /\ pc = "check"
    /\ \E found \in BOOLEAN :
          /\ pc' = IF found THEN "mainloop" ELSE "exited"
          /\ lastOp' = IF found THEN "ffmpeg_found" ELSE "ffmpeg_missing"
    /\ UNCHANGED <<configFile, YOUTUBE_URL, STREAM_KEY, VIDEO_FOLDER, ffmpeg_process,
                   procs, stream_status_label, settings_windows, fs, probe>>

(* --------------------------- folder selection ------------------------- *)
\* the result of the dialog is stored without the test for a cancel
select_folder_unchecked ==
    /\ pc = "mainloop"
    /\ \E folder \in DialogFolders \cup {NoStr} :
          /\ VIDEO_FOLDER' = folder
          /\ lastOp' = IF folder # NoStr THEN "select_folder" ELSE "select_cancel"
    /\ UNCHANGED <<pc, configFile, YOUTUBE_URL, STREAM_KEY, ffmpeg_process, procs,
                   stream_status_label, settings_windows, fs, probe>>

\* filedialog.askdirectory() returns "" when the dialog is cancelled
select_folder ==
    /\ pc = "mainloop"
    /\ \E folder \in DialogFolders \cup {NoStr} :
          /\ VIDEO_FOLDER' = IF folder # NoStr THEN folder ELSE VIDEO_FOLDER
          /\ lastOp' = IF folder # NoStr THEN "select_folder" ELSE "select_cancel"
    /\ UNCHANGED <<pc, configFile, YOUTUBE_URL, STREAM_KEY, ffmpeg_process, procs,
                   stream_status_label, settings_windows, fs, probe>>

(* ------------------------------ supervisor ---------------------------- *)
\* a pid the operating system can hand out
FreePids == {p \in Pids : procs[p].state = "free"}

\* dropping the last reference to a Popen object whose child has exited
\* releases the child; a running child stays
Release(ps, old) ==
    IF old # None /\ ps[old].state = "exited"
    THEN [ps EXCEPT ![old] = FreeSlot]
    ELSE ps

\* line 72: if not VIDEO_FOLDER
FolderMissing(folder) == folder = NoStr

\* the check of the stream key is skipped
KeyMissing_never(stream_key) == FALSE

\* line 86: if not stream_key
KeyMissing(stream_key) == stream_key = NoStr

\* the URL read at start-up is used instead of the one just loaded
StartUrl_cached(config) == YOUTUBE_URL

\* line 83: youtube_url = config["YOUTUBE_URL"] of the record just loaded
StartUrl(config) == DictGet(config.val, KeyUrl)

\* line 84: stream_key = config["STREAM_KEY"] of the record just loaded
StartKey(config) == DictGet(config.val, KeyStreamKey)

\* the outcome of start_stream before the spawn: why it returns or raises,
\* or "spawn" with the command line
StartPlan ==
    IF FolderMissing(VIDEO_FOLDER) THEN [outcome |-> "start_nofolder", cmd |-> << >>]
    ELSE LET newest_mp4 == get_newest_mp4(VIDEO_FOLDER, fs)
         IN  IF newest_mp4.kind = "error"
             THEN [outcome |-> "start_listerror", cmd |-> << >>]
             ELSE IF newest_mp4.kind = "none"
             THEN [outcome |-> "start_nomedia", cmd |-> << >>]
             ELSE LET config == load_config(configFile)
                  IN  IF ~config.ok \/ ~HasKey(config.val, KeyUrl)
                                    \/ ~HasKey(config.val, KeyStreamKey)
                      THEN [outcome |-> "start_configerror", cmd |-> << >>]
                      ELSE IF KeyMissing(StartKey(config))
                      THEN [outcome |-> "start_nokey", cmd |-> << >>]
                      ELSE [outcome |-> "spawn",
                            cmd |-> ffmpeg_command(newest_mp4.path, StartUrl(config),
                                                   StartKey(config))]

\* the label is set before the child is spawned
start_stream_label_first ==
    /\ pc = "mainloop"
    /\ LET plan == StartPlan
       IN  IF plan.outcome # "spawn"
           THEN /\ lastOp' = plan.outcome
                /\ UNCHANGED <<ffmpeg_process, procs, stream_status_label>>
           ELSE /\ stream_status_label' = LabelStreaming(plan.cmd[4])
                /\ \E launched \in BOOLEAN :
                      IF launched
                      THEN /\ FreePids # {}
                           /\ LET pid == CHOOSE p \in FreePids : \A q \in FreePids : p <= q
                              IN  /\ procs' = Release([procs EXCEPT ![pid] =
                                                   [state |-> "running", args |-> plan.cmd,
                                                    terminated |-> 0]], ffmpeg_process)
                                  /\ ffmpeg_process' = pid
                           /\ lastOp' = "start_ok"
                      ELSE /\ lastOp' = "start_launcherror"
                           /\ UNCHANGED <<ffmpeg_process, procs>>
    /\ UNCHANGED <<pc, configFile, YOUTUBE_URL, STREAM_KEY, VIDEO_FOLDER,
                   settings_windows, fs, probe>>

start_stream ==
    /\ pc = "mainloop"
    /\ LET plan == StartPlan
       IN  IF plan.outcome # "spawn"
           THEN /\ lastOp' = plan.outcome
                /\ UNCHANGED <<ffmpeg_process, procs, stream_status_label>>
           ELSE \E launched \in BOOLEAN :
                   IF launched
                   THEN /\ FreePids # {}
                        /\ LET pid == CHOOSE p \in FreePids : \A q \in FreePids : p <= q
                           IN  /\ procs' = Release([procs EXCEPT ![pid] =
                                                [state |-> "running", args |-> plan.cmd,
                                                 terminated |-> 0]], ffmpeg_process)
                               /\ ffmpeg_process' = pid
                        /\ stream_status_label' = LabelStreaming(plan.cmd[4])
                        /\ lastOp' = "start_ok"
                   ELSE /\ lastOp' = "start_launcherror"
                        /\ UNCHANGED <<ffmpeg_process, procs, stream_status_label>>
    /\ UNCHANGED <<pc, configFile, YOUTUBE_URL, STREAM_KEY, VIDEO_FOLDER,
                   settings_windows, fs, probe>>

\* the signal is sent a second time
Terminate_twice(ps, pid) ==
    IF ps[pid].state = "running"
    THEN [ps EXCEPT ![pid].terminated = @ + 2]
    ELSE ps

\* Popen.terminate(): a signal to a running child, nothing to one that exited
Terminate(ps, pid) ==
    IF ps[pid].state = "running"
    THEN [ps EXCEPT ![pid].terminated = @ + 1]
    ELSE ps

\* the label and the notice are outside the test of the handle
stop_stream_always_labels ==
    /\ pc = "mainloop"
    /\ IF ffmpeg_process # None
       THEN /\ procs' = Release(Terminate(procs, ffmpeg_process), ffmpeg_process)
            /\ ffmpeg_process' = None
            /\ lastOp' = "stop_sent"
       ELSE /\ lastOp' = "stop_noop"
            /\ UNCHANGED <<ffmpeg_process, procs>>
    /\ stream_status_label' = LabelStopped
    /\ UNCHANGED <<pc, configFile, YOUTUBE_URL, STREAM_KEY, VIDEO_FOLDER,
                   settings_windows, fs, probe>>

stop_stream ==
    /\ pc = "mainloop"
    /\ IF ffmpeg_process # None
       THEN /\ procs' = Release(Terminate(procs, ffmpeg_process), ffmpeg_process)
            /\ ffmpeg_process' = None
            /\ stream_status_label' = LabelStopped
            /\ lastOp' = "stop_sent"
       ELSE /\ lastOp' = "stop_noop"
            /\ UNCHANGED <<ffmpeg_process, procs, stream_status_label>>
    /\ UNCHANGED <<pc, configFile, YOUTUBE_URL, STREAM_KEY, VIDEO_FOLDER,
                   settings_windows, fs, probe>>

(* ------------------------------ settings ------------------------------ *)
RemoveAt(seq, n) == SubSeq(seq, 1, n - 1) \o SubSeq(seq, n + 1, Len(seq))

\* the entries are filled from the record the settings file holds now
open_settings_reloads ==
    /\ pc = "mainloop"
    /\ Len(settings_windows) < MaxDialogs
    /\ LET config == load_config(configFile)
       IN  /\ config.ok
           /\ settings_windows' = Append(settings_windows,
                  [yt_url_entry |-> DictGet(config.val, KeyUrl),
                   stream_key_entry |-> DictGet(config.val, KeyStreamKey)])
    /\ lastOp' = "open_settings"
    /\ UNCHANGED <<pc, configFile, YOUTUBE_URL, STREAM_KEY, VIDEO_FOLDER, ffmpeg_process,
                   procs, stream_status_label, fs, probe>>

\* a new window whose entries are filled from the module globals
open_settings ==
    /\ pc = "mainloop"
    /\ Len(settings_windows) < MaxDialogs
    /\ settings_windows' = Append(settings_windows,
           [yt_url_entry |-> YOUTUBE_URL, stream_key_entry |-> STREAM_KEY])
    /\ lastOp' = "open_settings"
    /\ UNCHANGED <<pc, configFile, YOUTUBE_URL, STREAM_KEY, VIDEO_FOLDER, ffmpeg_process,
                   procs, stream_status_label, fs, probe>>

\* the user replaces the text of one entry field of an open window
type_entry ==
    /\ pc = "mainloop"
    /\ \E w \in 1..Len(settings_windows) :
          \/ \E t \in UrlTexts \ {settings_windows[w].yt_url_entry} :
                settings_windows' = [settings_windows EXCEPT ![w].yt_url_entry = t]
          \/ \E t \in KeyTexts \ {settings_windows[w].stream_key_entry} :
                settings_windows' = [settings_windows EXCEPT ![w].stream_key_entry = t]
    /\ lastOp' = "type_entry"
    /\ UNCHANGED <<pc, configFile, YOUTUBE_URL, STREAM_KEY, VIDEO_FOLDER, ffmpeg_process,
                   procs, stream_status_label, fs, probe>>

\* only the URL is tested before the record is written
save_and_close_key_unchecked ==
    /\ pc = "mainloop"
    /\ \E w \in 1..Len(settings_windows) :
          LET yt_url == strip(settings_windows[w].yt_url_entry)
              stream_key == strip(settings_windows[w].stream_key_entry)
          IN  IF yt_url = NoStr
              THEN /\ lastOp' = "save_rejected"
                   /\ UNCHANGED <<configFile, settings_windows>>
              ELSE /\ configFile' = save_config(configFile, yt_url, stream_key)
                   /\ settings_windows' = RemoveAt(settings_windows, w)
                   /\ lastOp' = "save_ok"
    /\ UNCHANGED <<pc, YOUTUBE_URL, STREAM_KEY, VIDEO_FOLDER, ffmpeg_process, procs,
                   stream_status_label, fs, probe>>

\* the Save button of window w
save_and_close ==
    /\ pc = "mainloop"
    /\ \E w \in 1..Len(settings_windows) :
          LET yt_url == strip(settings_windows[w].yt_url_entry)
              stream_key == strip(settings_windows[w].stream_key_entry)
          IN  IF yt_url = NoStr \/ stream_key = NoStr
              THEN /\ lastOp' = "save_rejected"
                   /\ UNCHANGED <<configFile, settings_windows>>
              ELSE /\ configFile' = save_config(configFile, yt_url, stream_key)
                   /\ settings_windows' = RemoveAt(settings_windows, w)
                   /\ lastOp' = "save_ok"
    /\ UNCHANGED <<pc, YOUTUBE_URL, STREAM_KEY, VIDEO_FOLDER, ffmpeg_process, procs,
                   stream_status_label, fs, probe>>

\* the user closes window w without saving
close_window ==
    /\ pc = "mainloop"
    /\ \E w \in 1..Len(settings_windows) :
          settings_windows' = RemoveAt(settings_windows, w)
    /\ lastOp' = "close_window"
    /\ UNCHANGED <<pc, configFile, YOUTUBE_URL, STREAM_KEY, VIDEO_FOLDER, ffmpeg_process,
                   procs, stream_status_label, fs, probe>>

(* ----------------------------- environment ---------------------------- *)
\* a watcher clears the handle and the label when the child ends
child_exit_notifies ==
    /\ \E p \in Pids :
          /\ procs[p].state = "running"
          /\ procs' = [procs EXCEPT ![p] = FreeSlot]
          /\ ffmpeg_process' = IF p = ffmpeg_process THEN None ELSE ffmpeg_process
          /\ stream_status_label' =
                IF p = ffmpeg_process THEN LabelStopped ELSE stream_status_label
    /\ lastOp' = "env"
    /\ UNCHANGED <<pc, configFile, YOUTUBE_URL, STREAM_KEY, VIDEO_FOLDER,
                   settings_windows, fs, probe>>

\* a child ends (end of file, crash, network failure, or the signal it was
\* sent); nothing tells the program.  A child the program still references
\* stays as an exited process, any other is gone.
child_exit ==
    /\ \E p \in Pids :
          /\ procs[p].state = "running"
          /\ procs' = IF p = ffmpeg_process
                      THEN [procs EXCEPT ![p].state = "exited"]
                      ELSE [procs EXCEPT ![p] = FreeSlot]
    /\ lastOp' = "env"
    /\ UNCHANGED <<pc, configFile, YOUTUBE_URL, STREAM_KEY, VIDEO_FOLDER, ffmpeg_process,
                   stream_status_label, settings_windows, fs, probe>>

\* the settings file is removed from outside while the program runs
config_deleted ==
    /\ pc = "mainloop"
    /\ configFile.exists
    /\ configFile' = NoFile
    /\ lastOp' = "env"
    /\ UNCHANGED <<pc, YOUTUBE_URL, STREAM_KEY, VIDEO_FOLDER, ffmpeg_process, procs,
                   stream_status_label, settings_windows, fs, probe>>

Next ==
    \/ module_load
    \/ check_ffmpeg
    \/ select_folder
    \/ start_stream
    \/ stop_stream
    \/ open_settings
    \/ type_entry
    \/ save_and_close
    \/ close_window
    \/ child_exit
    \/ config_deleted

Spec == Init /\ [][Next]_vars

(* -------------------- the selector called on its own ------------------ *)
SelectorNames == {NameA, NameB, NameUpper, NameBare, NameTxt, Mp4Suffix}
SelectorEntries == {Entry(n, t) : n \in SelectorNames, t \in 1..2}

\* the listings of at most MaxEntries entries with distinct names
RECURSIVE ListingsOfLen(_)
ListingsOfLen(n) ==
    IF n = 0 THEN {<< >>}
    ELSE {Append(l, e) : l \in ListingsOfLen(n - 1), e \in SelectorEntries}

DistinctNames(l) == \A i, j \in 1..Len(l) : i # j => l[i].name # l[j].name

SelectorListings ==
    {l \in UNION {ListingsOfLen(n) : n \in 0..MaxEntries} : DistinctNames(l)}

SelectorArgs == {NoStr, FolderV, FolderRoot, FolderGone}

HarnessFrame ==
    UNCHANGED <<pc, YOUTUBE_URL, STREAM_KEY, VIDEO_FOLDER, ffmpeg_process, procs,
                stream_status_label, settings_windows, lastOp>>

InitHarness ==
    /\ pc = "harness"
    /\ YOUTUBE_URL = NoStr
    /\ STREAM_KEY = NoStr
    /\ VIDEO_FOLDER = NoStr
    /\ ffmpeg_process = None
    /\ procs = [p \in Pids |-> FreeSlot]
    /\ stream_status_label = LabelNotStarted
    /\ settings_windows = << >>
    /\ lastOp = "init"
    /\ probe = NoProbe

InitSelector ==
    /\ InitHarness
    /\ configFile = NoFile
    /\ \E l \in SelectorListings : fs = (FolderV :> l) @@ (FolderRoot :> l)

call_get_newest_mp4 ==
    /\ \E folder \in SelectorArgs :
          probe' = [fn |-> "get_newest_mp4", arg |-> folder,
                    res |-> get_newest_mp4(folder, fs)]
    /\ UNCHANGED <<configFile, fs>>
    /\ HarnessFrame

NextSelector == call_get_newest_mp4

SpecSelector == InitSelector /\ [][NextSelector]_vars

(* ----------------- the settings store called on its own --------------- *)
StoreStrings ==
    {NoStr, KeyS, UrlR, DefaultUrl, <<"\"">>, <<"\\">>, <<" ", "}">>,
     <<"a", "\\", "\"", ",", ":">>}

StoreFiles ==
    {NoFile} \cup {save_config(NoFile, u, k) : u \in StoreStrings, k \in StoreStrings}

InitStore ==
    /\ InitHarness
    /\ configFile \in StoreFiles
    /\ fs = FsMediaInV

\* save_config(yt_url, stream_key) with any two strings
call_save_config ==
    /\ \E yt_url \in StoreStrings, stream_key \in StoreStrings :
          /\ configFile' = save_config(configFile, yt_url, stream_key)
          /\ probe' = [fn |-> "save_config", arg |-> <<yt_url, stream_key>>,
                       res |-> << >>]
    /\ UNCHANGED fs
    /\ HarnessFrame

\* load_config(); arg keeps what the save before it was given, if any
call_load_config ==
    /\ probe' = [fn |-> "load_config",
                 arg |-> IF probe.fn \in {"save_config", "load_config"}
                         THEN probe.arg ELSE << >>,
                 res |-> load_config(configFile)]
    /\ UNCHANGED <<configFile, fs>>
    /\ HarnessFrame

NextStore == call_save_config \/ call_load_config

SpecStore == InitStore /\ [][NextStore]_vars

(* ============================== claims ================================ *)
StartOutcomes ==
    {"start_nofolder", "start_listerror", "start_nomedia", "start_configerror",
     "start_nokey", "start_launcherror", "start_ok"}
StopOutcomes == {"stop_sent", "stop_noop"}

IsStreaming == stream_status_label.text = "Streaming: "

\* the children that run and were not asked to end
Unsignalled == {p \in Pids : procs[p].state = "running" /\ procs[p].terminated = 0}

\* C1: at most one child of the supervisor is alive at a time, and every
\* live child is the one the handle references (a child that stop has
\* already asked to end is not counted): no start leaves an earlier child
\* running and unreferenced.
C1_OneOwnedChild ==
    /\ Cardinality(Unsignalled) <= 1
    /\ \A p \in Unsignalled : p = ffmpeg_process

\* C2: in every reachable state the handle is set if and only if the
\* status is Streaming.
C2_HandleIffStreaming == (ffmpeg_process # None) <=> IsStreaming

\* a start failed to launch during a session, and one was stopped before
C2_Witness ==
    /\ lastOp = "start_launcherror"
    /\ ffmpeg_process # None
    /\ IsStreaming
    /\ \E p \in Pids : procs[p].terminated = 1

\* the names of the entries of the selected folder that match the filter
MatchingNames ==
    IF VIDEO_FOLDER \in DOMAIN fs
    THEN {fs[VIDEO_FOLDER][i].name : i \in
             {j \in 1..Len(fs[VIDEO_FOLDER]) :
                 LET n == fs[VIDEO_FOLDER][j].name
                 IN  Len(n) >= 4 /\ SubSeq(n, Len(n) - 3, Len(n)) = <<".", "m", "p", "4">>}}
    ELSE {}

\* the settings file holds a record whose stream key is empty
PersistedKeyEmpty ==
    /\ load_config(configFile).ok
    /\ DictGet(load_config(configFile).val, KeyStreamKey) = << >>

StartPreconditionFails ==
    \/ VIDEO_FOLDER = << >>
    \/ VIDEO_FOLDER \in DOMAIN fs /\ MatchingNames = {}
    \/ PersistedKeyEmpty

\* C3: a start that fails a precondition (no folder selected, no matching
\* file in the folder, empty persisted stream key) spawns no child and
\* leaves handle and status as they were, idle or streaming.
C3_FailedStartChangesNothing ==
    [][(lastOp' \in StartOutcomes /\ StartPreconditionFails)
          => /\ lastOp' # "start_ok"
             /\ UNCHANGED <<ffmpeg_process, stream_status_label, procs>>]_vars

\* a start found no media while a session was running
C3_Witness ==
    /\ lastOp = "start_nomedia"
    /\ ffmpeg_process # None
    /\ procs[ffmpeg_process].state = "running"
    /\ IsStreaming

\* C4: stop during a session sends one termination request to the child
\* the handle references, clears the handle and leaves Streaming in the
\* same step, and does not wait for the child to end.
C4_StopActive ==
    [][(lastOp' \in StopOutcomes /\ ffmpeg_process # None)
          => /\ lastOp' = "stop_sent"
             /\ ffmpeg_process' = None
             /\ stream_status_label' = [text |-> "Stream Stopped", arg |-> << >>]
             /\ procs[ffmpeg_process].state = "running"
                   => /\ procs'[ffmpeg_process].state = "running"
                      /\ procs'[ffmpeg_process].terminated
                            = procs[ffmpeg_process].terminated + 1
                      /\ procs'[ffmpeg_process].args = procs[ffmpeg_process].args
             /\ \A q \in Pids \ {ffmpeg_process} : procs'[q] = procs[q]]_vars

\* stop has run and the child it signalled once is still running
C4_Witness ==
    /\ lastOp = "stop_sent"
    /\ ffmpeg_process = None
    /\ ~IsStreaming
    /\ \E p \in Pids : procs[p].state = "running" /\ procs[p].terminated = 1

\* C5: stop without a session changes nothing (handle, status, folder,
\* settings, children: no termination request), so a second stop right
\* after a first leaves the state of the first.
C5_StopIdle ==
    [][(lastOp' \in StopOutcomes /\ ffmpeg_process = None)
          => /\ lastOp' = "stop_noop"
             /\ UNCHANGED <<ffmpeg_process, stream_status_label, VIDEO_FOLDER,
                            configFile, procs, settings_windows, YOUTUBE_URL,
                            STREAM_KEY, fs, pc>>]_vars

\* a second stop has run while the child of the first is still running
C5_Witness ==
    /\ lastOp = "stop_noop"
    /\ ffmpeg_process = None
    /\ stream_status_label.text = "Stream Stopped"
    /\ \E p \in Pids : procs[p].state = "running" /\ procs[p].terminated = 1

PersistedUrl == DictGet(load_config(configFile).val, KeyUrl)
PersistedKey == DictGet(load_config(configFile).val, KeyStreamKey)

\* the last argument of a command line
Target(args) == args[Len(args)]

\* C6: every successful start spawns exactly one child whose one output
\* target is <url>/<key> of the record the settings file holds at that
\* start (not a value kept from start-up or from an earlier start), and
\* sets the status to Streaming with the base name of the chosen file.
C6_StartSpawnsOne ==
    [][lastOp' = "start_ok"
          => LET spawned == {p \in Pids : procs[p].state = "free"
                                          /\ procs'[p].state = "running"}
             IN  /\ Cardinality(spawned) = 1
                 /\ \A p \in spawned :
                       /\ ffmpeg_process' = p
                       /\ procs'[p].terminated = 0
                       /\ Len(procs'[p].args) = 33
                       /\ procs'[p].args[1] = "ffmpeg"
                       /\ procs'[p].args[3] = "-i"
                       /\ procs'[p].args[32] = "flv"
                       /\ Target(procs'[p].args) = PersistedUrl \o <<"/">> \o PersistedKey
                       /\ \E n \in MatchingNames :
                             /\ procs'[p].args[4] \in
                                   {VIDEO_FOLDER \o n, VIDEO_FOLDER \o <<"\\">> \o n}
                             /\ stream_status_label' = [text |-> "Streaming: ", arg |-> n]
                 /\ \A q \in Pids \ spawned :
                       \/ procs'[q] = procs[q]
                       \/ /\ q = ffmpeg_process
                          /\ procs[q].state = "exited"
                          /\ procs'[q].state = "free"]_vars

\* a start used the record saved last, which differs from the start-up
\* values and from the target of an earlier child that still runs
C6_Witness ==
    /\ lastOp = "start_ok"
    /\ ffmpeg_process # None
    /\ Target(procs[ffmpeg_process].args) = <<"r", "/", "s">>
    /\ YOUTUBE_URL = DefaultUrl
    /\ STREAM_KEY = << >>
    /\ \E p \in Pids \ {ffmpeg_process} :
          /\ procs[p].state = "running"
          /\ Target(procs[p].args) = DefaultUrl \o <<"/", "s">>

\* the entries of a listing whose name ends in .mp4
MatchingEntries(listing) ==
    {i \in 1..Len(listing) :
        LET n == listing[i].name
        IN  Len(n) >= 4 /\ SubSeq(n, Len(n) - 3, Len(n)) = <<".", "m", "p", "4">>}

\* C7: on a folder with a matching entry findNewest returns the path of a
\* matching entry whose timestamp is the largest among the matching ones,
\* never that of another entry; it returns none when no entry matches or
\* when the folder argument is empty, and then lists no directory.
C7_FindNewest ==
    probe.fn = "get_newest_mp4"
       => LET folder == probe.arg
              r == probe.res
          IN  /\ folder = << >> => r.kind = "none" /\ r.listed = 0
              /\ (folder \in DOMAIN fs /\ MatchingEntries(fs[folder]) = {})
                    => r.kind = "none"
              /\ (folder \in DOMAIN fs /\ MatchingEntries(fs[folder]) # {})
                    => /\ r.kind = "path"
                       /\ \E i \in MatchingEntries(fs[folder]) :
                             /\ r.path \in {folder \o fs[folder][i].name,
                                            folder \o <<"\\">> \o fs[folder][i].name}
                             /\ \A j \in MatchingEntries(fs[folder]) :
                                   fs[folder][j].mtime <= fs[folder][i].mtime

\* the newest of two matching entries is the one listed second
C7_Witness ==
    /\ probe.fn = "get_newest_mp4"
    /\ probe.arg = FolderV
    /\ Len(fs[FolderV]) = 2
    /\ MatchingEntries(fs[FolderV]) = {1, 2}
    /\ fs[FolderV][1].mtime < fs[FolderV][2].mtime
    /\ probe.res.kind = "path"
    /\ probe.res.path = FolderV \o <<"\\">> \o fs[FolderV][2].name

\* C8: for every record s of two strings (the stream key may be empty)
\* save(s) followed by load() returns exactly s, whatever was persisted
\* before: no field of the earlier record survives.
C8_RoundTrip ==
    (probe.fn = "load_config" /\ probe.arg # << >>)
       => /\ probe.res.ok
          /\ probe.res.val = << <<KeyUrl, probe.arg[1]>>, <<KeyStreamKey, probe.arg[2]>> >>

\* a record with quotes and backslashes in the URL and an empty key came back
C8_Witness ==
    /\ probe.fn = "load_config"
    /\ probe.arg = << <<"a", "\\", "\"", ",", ":">>, << >> >>
    /\ probe.res.ok
    /\ DictGet(probe.res.val, KeyStreamKey) = << >>

\* the file exists and holds the default record
HoldsDefault(file) ==
    /\ file.exists
    /\ load_config(file).ok
    /\ load_config(file).val = << <<KeyUrl, DefaultUrl>>, <<KeyStreamKey, << >> >> >>

\* the outcomes of the steps that call load_config
LoadingOutcomes ==
    {"config_created", "config_loaded", "start_configerror", "start_nokey",
     "start_launcherror", "start_ok"}

\* C9: whenever load() is called and no settings file exists, at start-up
\* or later (the reload inside start), it first writes the default record,
\* so that after the call the file exists with exactly the default content.
C9_LoadCreatesDefault ==
    [][(~configFile.exists /\ lastOp' \in LoadingOutcomes)
          => HoldsDefault(configFile')]_vars

\* C9 as amended: at start-up a missing settings file is created with the
\* default record before the first load, which returns it; a later load
\* with the file missing writes nothing and fails, and the start that made
\* it spawns no child.
C9_StartupCreatesDefault ==
    [][(~configFile.exists /\ lastOp' \in LoadingOutcomes)
          => IF pc = "import"
             THEN /\ lastOp' = "config_created"
                  /\ HoldsDefault(configFile')
                  /\ YOUTUBE_URL' = DefaultUrl
                  /\ STREAM_KEY' = << >>
             ELSE /\ lastOp' = "start_configerror"
                  /\ UNCHANGED <<configFile, ffmpeg_process, procs,
                                 stream_status_label>>]_vars

\* start-up found no settings file and has created and loaded the default
C9_Witness ==
    /\ lastOp = "config_created"
    /\ pc = "check"
    /\ HoldsDefault(configFile)
    /\ YOUTUBE_URL = DefaultUrl
    /\ STREAM_KEY = << >>

\* the handle references a child that has ended
ExitedSession ==
    /\ ffmpeg_process # None
    /\ procs[ffmpeg_process].state = "exited"

\* C10: when the child ends on its own during a session the handle stays
\* set and the status stays Streaming, in that step and in every later
\* one, until a stop or a new start.
C10_ExitUnnoticed ==
    [][/\ (ffmpeg_process # None /\ procs[ffmpeg_process].state = "running"
              /\ procs'[ffmpeg_process].state # "running"
              /\ lastOp' \notin {"stop_sent", "start_ok"})
          => /\ ExitedSession'
             /\ UNCHANGED <<ffmpeg_process, stream_status_label>>
             /\ IsStreaming
       /\ (ExitedSession /\ lastOp' \notin {"stop_sent", "start_ok"})
          => /\ ExitedSession'
             /\ UNCHANGED <<ffmpeg_process, stream_status_label>>
             /\ IsStreaming]_vars

\* the child ended and a later start that found no media left all as it was
C10_Witness ==
    /\ ExitedSession
    /\ IsStreaming
    /\ lastOp = "start_nomedia"

\* the outcomes of the handlers of the user's commands
CommandOutcomes ==
    StartOutcomes \cup StopOutcomes
    \cup {"select_folder", "select_cancel", "open_settings", "type_entry",
          "save_ok", "save_rejected", "close_window"}

\* C11: the start-up check of the transcoder is fatal: when the binary is
\* not found the program ends before any command is accepted (no start,
\* stop, folder selection or save runs, no child is ever spawned); when
\* it is found the program goes on to accept commands.
C11_FatalCheck ==
    [][/\ lastOp' = "ffmpeg_missing" => pc' = "exited"
       /\ lastOp' = "ffmpeg_found" => pc' = "mainloop"
       /\ pc = "exited" => UNCHANGED vars
       /\ lastOp' \in CommandOutcomes => pc = "mainloop" /\ pc' = "mainloop"
       /\ pc' = "exited"
             => /\ \A p \in Pids : procs'[p].state = "free"
                /\ ffmpeg_process' = None
                /\ VIDEO_FOLDER' = << >>
                /\ settings_windows' = << >>
                /\ stream_status_label'.text = "Stream Status: Not Started"]_vars

\* the binary was not found and the program has ended with nothing done
C11_Witness ==
    /\ lastOp = "ffmpeg_missing"
    /\ pc = "exited"
    /\ \A p \in Pids : procs[p].state = "free"
    /\ VIDEO_FOLDER = << >>

\* the selected folder is named but cannot be listed
FolderUnlistable == VIDEO_FOLDER # << >> /\ VIDEO_FOLDER \notin DOMAIN fs

\* C12: findNewest on a folder that is named but cannot be listed ends in
\* an error, which is not the none result, and a start that meets this
\* error spawns no child and leaves handle and status unchanged.
C12_UnlistableFolder ==
    [][(lastOp' \in StartOutcomes /\ FolderUnlistable)
          => /\ get_newest_mp4(VIDEO_FOLDER, fs).kind = "error"
             /\ get_newest_mp4(VIDEO_FOLDER, fs) # get_newest_mp4(<< >>, fs)
             /\ lastOp' = "start_listerror"
             /\ UNCHANGED <<ffmpeg_process, stream_status_label, procs>>]_vars

\* a start met the unlistable folder while a session was running
C12_Witness ==
    /\ lastOp = "start_listerror"
    /\ FolderUnlistable
    /\ ffmpeg_process # None
    /\ procs[ffmpeg_process].state = "running"
    /\ IsStreaming

\* C13: when every precondition of start passes and the spawn fails,
\* handle and status keep their values (the status does not become
\* Streaming, a handle that exists is neither cleared nor replaced); only
\* a successful spawn assigns the handle and sets the status to Streaming.
C13_AllOrNothing ==
    [][/\ lastOp' = "start_launcherror"
          => /\ ~StartPreconditionFails
             /\ UNCHANGED <<ffmpeg_process, stream_status_label, procs>>
       /\ (ffmpeg_process' # ffmpeg_process /\ ffmpeg_process' # None)
          => /\ lastOp' = "start_ok"
             /\ procs[ffmpeg_process'].state = "free"
             /\ procs'[ffmpeg_process'].state = "running"
       /\ (stream_status_label' # stream_status_label /\ IsStreaming')
          => /\ lastOp' = "start_ok"
             /\ ffmpeg_process' # None
             /\ procs'[ffmpeg_process'].state = "running"]_vars

\* the spawn failed while a session was running with its one child
C13_Witness ==
    /\ lastOp = "start_launcherror"
    /\ ffmpeg_process # None
    /\ procs[ffmpeg_process].state = "running"
    /\ IsStreaming
    /\ \A q \in Pids \ {ffmpeg_process} : procs[q].state = "free"

\* C14: the watched folder is empty at start-up and changes only when the
\* folder dialog returns a non-empty path; a cancel leaves it as it was;
\* selecting a folder never changes the handle, the status, the settings
\* file or the children, so a running session keeps its file.
C14_FolderSelection ==
    [][/\ pc \in {"import", "check"} => VIDEO_FOLDER = << >>
       /\ VIDEO_FOLDER' # VIDEO_FOLDER
          => lastOp' = "select_folder" /\ VIDEO_FOLDER' # << >>
       /\ lastOp' = "select_cancel" => VIDEO_FOLDER' = VIDEO_FOLDER
       /\ lastOp' \in {"select_folder", "select_cancel"}
          => UNCHANGED <<ffmpeg_process, stream_status_label, configFile, procs>>]_vars

\* the dialog was cancelled during a session started from another folder
\* than the one now selected, which is kept
C14_Witness ==
    /\ lastOp = "select_cancel"
    /\ VIDEO_FOLDER = FolderGone
    /\ ffmpeg_process # None
    /\ procs[ffmpeg_process].state = "running"
    /\ IsStreaming

\* s without its leading and trailing blanks: the part of s from its first
\* to its last character that is not a blank
TrimmedOf(s) ==
    LET inked == {n \in 1..Len(s) : s[n] # " "}
    IN  IF inked = {}
        THEN << >>
        ELSE SubSeq(s, CHOOSE n \in inked : \A m \in inked : n <= m,
                       CHOOSE n \in inked : \A m \in inked : n >= m)

\* the settings file holds exactly the record {url, key}
Persisted(file, url, key) ==
    /\ load_config(file).ok
    /\ load_config(file).val = << <<KeyUrl, url>>, <<KeyStreamKey, key>> >>

\* a start that reads this settings file fails for a missing stream key
KeyMissingIn(file) ==
    /\ load_config(file).ok
    /\ DictGet(load_config(file).val, KeyStreamKey) = << >>

KeyCannotBeMissing == ~KeyMissingIn(configFile)

\* C15: the Save button of the settings window writes the record only
\* when the trimmed URL and the trimmed stream key are both non-empty, and
\* else leaves the settings file unchanged and the window open; so every
\* record written through the window has a non-empty stream key, and once
\* a save has succeeded no start of that run fails for a missing key
\* (a save makes the key present, no later change of the settings file
\* while the window loop runs makes it missing again, and a start fails for
\* a missing key only while it is missing).
C15_DialogSave ==
    [][\A written \in {configFile'} :
          /\ lastOp' \in {"save_ok", "save_rejected"}
                => \E w \in 1..Len(settings_windows) :
                      LET u == TrimmedOf(settings_windows[w].yt_url_entry)
                          k == TrimmedOf(settings_windows[w].stream_key_entry)
                      IN  IF u # << >> /\ k # << >>
                          THEN /\ lastOp' = "save_ok"
                               /\ Persisted(written, u, k)
                               /\ Len(settings_windows') = Len(settings_windows) - 1
                          ELSE /\ lastOp' = "save_rejected"
                               /\ UNCHANGED <<configFile, settings_windows>>
          /\ lastOp' = "save_ok" => ~KeyMissingIn(written)
          /\ pc = "mainloop" /\ written # configFile => ~KeyMissingIn(written)
          /\ lastOp' = "start_nokey" => ~KeyCannotBeMissing]_vars

\* a save of the entries " r" and "s " succeeded: the trimmed values are
\* in the settings file and the window is gone
C15_Witness ==
    /\ lastOp = "save_ok"
    /\ settings_windows = << >>
    /\ Persisted(configFile, <<"r">>, <<"s">>)
    /\ KeyCannotBeMissing

\* every open settings window still shows the values read at start-up
Unedited ==
    \A w \in 1..Len(settings_windows) :
       /\ settings_windows[w].yt_url_entry = YOUTUBE_URL
       /\ settings_windows[w].stream_key_entry = STREAM_KEY

\* C16: the URL and the stream key are read from the settings file once,
\* at start-up, and never again; a settings window opens filled with these
\* start-up values, whatever the settings file holds by then; and saving a
\* window that still shows them writes them (trimmed) as the record, or is
\* refused when one of them is empty.
C16_PrefillFromStartup ==
    [][\A written \in {configFile'} :
          /\ pc = "import" => Persisted(written, YOUTUBE_URL', STREAM_KEY')
          /\ pc # "import" => UNCHANGED <<YOUTUBE_URL, STREAM_KEY>>
          /\ lastOp' = "open_settings"
                => /\ Len(settings_windows') = Len(settings_windows) + 1
                   /\ settings_windows'[Len(settings_windows')] =
                         [yt_url_entry |-> YOUTUBE_URL, stream_key_entry |-> STREAM_KEY]
                   /\ written = configFile
          /\ lastOp' \in {"save_ok", "save_rejected"} /\ Unedited
                => IF TrimmedOf(YOUTUBE_URL) # << >> /\ TrimmedOf(STREAM_KEY) # << >>
                   THEN /\ lastOp' = "save_ok"
                        /\ Persisted(written, TrimmedOf(YOUTUBE_URL), TrimmedOf(STREAM_KEY))
                   ELSE /\ lastOp' = "save_rejected"
                        /\ written = configFile]_vars

\* the record saved in this run is {"r", "s"}, and the window opened after
\* that save shows the start-up values, the default URL and no key
C16_Witness ==
    /\ lastOp = "open_settings"
    /\ Persisted(configFile, <<"r">>, <<"s">>)
    /\ YOUTUBE_URL = DefaultUrl
    /\ STREAM_KEY = << >>
    /\ settings_windows = << [yt_url_entry |-> DefaultUrl, stream_key_entry |-> << >>] >>

====
